---- MODULE Spec2Model ----
(***************************************************************************)
(* Model of the DocuSign Connect worker for Google Cloud Pub/Sub.          *)
(*                                                                         *)
(*   src/README.md (lines 98-233)      the worker's mainline: testToken,   *)
(*                                     listenForever/startQueue and the    *)
(*                                     Pub/Sub messageHandler              *)
(*   src/lib/processNotification.js    process, getOrderNumber,            *)
(*                                     getLightColor, saveDoc, processTest *)
(*                                                                         *)
(* Node runs each callback to completion: an action of the model is the    *)
(* synchronous stretch of code between two awaits.  The results of the     *)
(* awaited calls (token service, document fetch, file system, LIFX, the    *)
(* Pub/Sub client) are inputs, chosen with \E.                             *)
(***************************************************************************)
EXTENDS Integers, Sequences, FiniteSets, TLC

\* ------------------------------------------------------------------ bounds

\* Number of message deliveries (each delivery is one messageHandler call).
MaxMsgs == 2

\* Number of deliveries when only test messages are delivered.
MaxTestMsgs == 3

\* Longest business key enumerated for the file-name claims.
MaxKeyLen == 3

\* ------------------------------------------------------- program constants

\* processTest shifts test19.txt .. test1.txt (the loop starts at i = 19).
RingTop == 19

\* process.exit(2) in processTest.
BreakExitCode == 2

\* process.exit() in testToken: no argument, the exit status is 0.
StartupExitCode == 0

\* The marker looked for by includes("/break").
BreakMarker == <<"/", "b", "r", "e", "a", "k">>

\* dsConfig.envelopeCustomField / envelopeColorCustomField / outputFilePefix
\* (the file header: 'Envelope Custom Field "Sales order"', "Order_xyz.pdf").
envelopeCustomField == "Sales order"

envelopeColorCustomField == "Light color"

outputFilePefix == <<"O", "r", "d", "e", "r", "_">>

PdfSuffix == <<".", "p", "d", "f">>

\* ------------------------------------------------------------ pure helpers

\* The characters matched by \w in a JavaScript regular expression.
WordChars ==
    {"A","B","C","D","E","F","G","H","I","J","K","L","M","N","O","P","Q","R",
     "S","T","U","V","W","X","Y","Z",
     "a","b","c","d","e","f","g","h","i","j","k","l","m","n","o","p","q","r",
     "s","t","u","v","w","x","y","z",
     "0","1","2","3","4","5","6","7","8","9","_"}

IsWordChar(c) == c \in WordChars

SanitizeDashMut(s) == [i \in 1..Len(s) |-> IF s[i] \in WordChars THEN s[i] ELSE "-"]

SanitizeStripMut(s) == SelectSeq(s, IsWordChar)

\* orderNumber.replace(/\W/g, '_')
Sanitize(s) == [i \in 1..Len(s) |-> IF s[i] \in WordChars THEN s[i] ELSE "_"]

\* dsConfig.outputFilePefix + sanitizedOrderNumber + '.pdf'
FileName(orderNumber) == outputFilePefix \o Sanitize(orderNumber) \o PdfSuffix

\* String.prototype.includes
Includes(s, sub) ==
    \E i \in 0..(Len(s) - Len(sub)) : SubSeq(s, i + 1, i + Len(sub)) = sub

\* Array.prototype.find over the CustomField elements, then .Value[0];
\* null (falsy, modelled as the empty string) when no field has the name.
FindField(customFields, name) ==
    LET hits == {i \in 1..Len(customFields) : customFields[i].Name = name}
    IN  IF hits = {} THEN <<>>
        ELSE customFields[CHOOSE i \in hits : \A j \in hits : i <= j].Value

getOrderNumber(envelopeStatus) ==
    FindField(envelopeStatus.customFields, envelopeCustomField)

getLightColor(envelopeStatus) ==
    FindField(envelopeStatus.customFields, envelopeColorCustomField)

\* The size of an envelope's combined document, in units of data after the
\* header: documents differ in length from envelope to envelope.
DocUnits(envelopeId) == IF envelopeId = "E2" THEN 2 ELSE 1

\* envelopesApi.getDocument(accountId, envelopeId, "combined"): the combined
\* document of a completed envelope.
Doc(envelopeId) ==
    <<"pdf">> \o [i \in 1..DocUnits(envelopeId) |-> envelopeId]

\* ------------------------------------------------------------ file system

NoFiles == [n \in {} |-> <<>>]

\* fse.writeFile(path, data): creates the file or replaces its content.
WriteFile(files, name, data) ==
    [n \in (DOMAIN files) \cup {name} |-> IF n = name THEN data ELSE files[n]]

\* What a read finds where a file was extended past its end and nothing
\* was written.
Hole == "NUL"

\* write(fd, data, k, n - k, k): the characters k+1..n of data are put at
\* their positions of a file that holds old; the file is extended when it
\* is shorter.
WriteAt(old, data, k, n) ==
    LET m == IF Len(old) > n THEN Len(old) ELSE n
    IN SubSeq([i \in 1..m |-> IF i > k /\ i <= n THEN data[i]
                              ELSE IF i <= Len(old) THEN old[i]
                              ELSE Hole],
              1, m)

\* fse.renameSync(test{i}.txt, test{i+1}.txt); an error (no such file) is
\* swallowed by the empty catch.
Rename(files, i) ==
    IF i \in DOMAIN files
    THEN [n \in ((DOMAIN files) \ {i}) \cup {i + 1} |->
             IF n = i + 1 THEN files[i] ELSE files[n]]
    ELSE files

RECURSIVE ShiftFrom(_, _)
\* for (let i = 19; i >= 1; i--) rename test{i}.txt -> test{i+1}.txt
\* (renamed: the directory after the rename of iteration i)
ShiftFrom(files, i) ==
    IF i < 1 THEN files
    ELSE CHOOSE shifted \in {ShiftFrom(renamed, i - 1) :
                                renamed \in {Rename(files, i)}} : TRUE

RECURSIVE ShiftUpFromMut(_, _)
ShiftUpFromMut(files, i) ==
    IF i > RingTop THEN files
    ELSE CHOOSE shifted \in {ShiftUpFromMut(renamed, i + 1) :
                                renamed \in {Rename(files, i)}} : TRUE

ShiftAscendingMut(files) == ShiftUpFromMut(files, 1)

ShiftKeepAllMut(files) == ShiftFrom(files, RingTop + 1)

\* The whole loop of lines 216-222.
Shift(files) == ShiftFrom(files, RingTop)

\* ------------------------------------------------------------------ inputs

\* A custom field of the notification: <CustomField><Name/><Value/>.
Field(name, value) == [Name |-> name, Value |-> value]

\* The decoded notification.  wellFormed: the XML parses.  hasEnvelopeStatus:
\* DocuSignEnvelopeInformation/EnvelopeStatus is there.  hasCustomFields: the
\* CustomFields element has CustomField children (an envelope without custom
\* fields has none, and msg...CustomFields[0].CustomField is undefined).
\* absent: the child elements of EnvelopeStatus that are missing.
Xml(wf, es, cf, id, status, fields) ==
    [wellFormed |-> wf, hasEnvelopeStatus |-> es, hasCustomFields |-> cf,
     envelopeId |-> id, status |-> status, customFields |-> fields,
     absent |-> {}]

\* The notification x with the elements named left out.
Without(x, names) == [x EXCEPT !.absent = names]

NoXml == Xml(FALSE, FALSE, FALSE, "", "", <<>>)

\* message.data: json is FALSE when JSON.parse throws (body = false).
Body(json, test, xml) == [json |-> json, test |-> test, xml |-> xml]

BadJsonBody == Body(FALSE, <<>>, NoXml)

TestBody(v) == Body(TRUE, v, NoXml)

XmlBody(x) == Body(TRUE, <<>>, x)

TestValues == {<<"1">>, <<"2">>, <<"x">> \o BreakMarker}

Key1 == <<"A", "-", "1">>

Key2 == <<"A", "_", "1">>

KeyBreak == <<"B">> \o BreakMarker

Red == <<"r", "e", "d">>

XmlInputs ==
    { Xml(FALSE, FALSE, FALSE, "", "", <<>>),
      Xml(TRUE, FALSE, FALSE, "", "", <<>>),
      Xml(TRUE, TRUE, FALSE, "E1", "Sent", <<>>),
      Xml(TRUE, TRUE, TRUE, "E1", "Sent",
          <<Field(envelopeCustomField, Key1)>>),
      Xml(TRUE, TRUE, TRUE, "E1", "Completed",
          <<Field(envelopeColorCustomField, Red)>>),
      Xml(TRUE, TRUE, TRUE, "E1", "Completed",
          <<Field(envelopeCustomField, <<>>)>>),
      Xml(TRUE, TRUE, TRUE, "E1", "Completed",
          <<Field(envelopeCustomField, Key1),
            Field(envelopeColorCustomField, Red),
            Field(envelopeCustomField, Key2)>>),
      Xml(TRUE, TRUE, TRUE, "E2", "Completed",
          <<Field(envelopeCustomField, Key2)>>),
      Xml(TRUE, TRUE, TRUE, "E2", "Completed",
          <<Field(envelopeCustomField, KeyBreak),
            Field(envelopeColorCustomField, Red)>>),
      Xml(TRUE, TRUE, TRUE, "E2", "Completed",
          <<Field(envelopeCustomField, Key1)>>),
      Without(Xml(TRUE, TRUE, TRUE, "E1", "Sent",
                  <<Field(envelopeCustomField, Key1)>>), {"Subject"}),
      Without(Xml(TRUE, TRUE, TRUE, "E1", "Completed",
                  <<Field(envelopeCustomField, Key1)>>), {"Completed"}) }

Bodies ==
    {BadJsonBody} \cup {TestBody(v) : v \in TestValues}
                  \cup {XmlBody(x) : x \in XmlInputs}

NoBody == Body(FALSE, <<>>, NoXml)

\* ds_configuration.js as deployed: a test installation (break test on, LIFX
\* token set) and a plain one.
Configs ==
    { [enableBreakTest |-> TRUE, lifxConfigured |-> TRUE],
      [enableBreakTest |-> FALSE, lifxConfigured |-> FALSE] }

\* ------------------------------------------------------------------- state

\* The deliveries the state has room for.
Msgs == 1..(IF MaxMsgs > MaxTestMsgs THEN MaxMsgs ELSE MaxTestMsgs)

VARIABLES
    lpc,             \* position of listenForever
    restart,         \* listenForever's restart flag
    subscribed,      \* messageHandler is attached to the subscription
    startup,         \* how testToken's check came out ("pending" before)
    exited,          \* process.exit was called
    exitCode,        \* its status
    enableBreakTest, \* dsConfig.enableBreakTest
    lifxConfigured,  \* dsConfig.lifxAccessToken is set and not the placeholder
    unhandledRejections, \* what the Node runtime does with one
    pc,              \* position of each messageHandler invocation
    msg,             \* the body delivered to each invocation
    acks,            \* calls of message.ack() per message
    nacks,           \* calls of message.nack() per message
    trace,           \* the external calls each invocation made, with outcome
    io,              \* what the thread pool did for the awaited fs call
    lockQueue,       \* invocations waiting for the lock "test_data"
    lockHolder,      \* the invocation that holds it, 0 when free
    processed,       \* test values logged by "Processing test value"
    testDirExists,   \* testOutputDir exists
    testFiles,       \* i |-> content of testOutputDir/test{i}.txt
    outDirExists,    \* outputDir exists
    outFiles         \* file name |-> content, in outputDir

vars == <<lpc, restart, subscribed, startup, exited, exitCode,
          enableBreakTest, lifxConfigured, unhandledRejections,
          pc, msg, acks, nacks, trace, io, lockQueue, lockHolder, processed, testDirExists, testFiles,
          outDirExists, outFiles>>

listenerVars == <<lpc, restart, subscribed, startup>>

configVars == <<enableBreakTest, lifxConfigured, unhandledRejections>>

handlerVars == <<pc, msg, acks, nacks, trace, io>>

lockVars == <<lockQueue, lockHolder>>

testFsVars == <<processed, testDirExists, testFiles>>

outFsVars == <<outDirExists, outFiles>>

exitVars == <<exited, exitCode>>

\* The Node runtime's treatment of a promise rejection nobody handles: the
\* versions the README asks for (v8.x, v10.x) print a warning and go on,
\* later ones (15 and up) raise it as an uncaught exception, which ends the
\* process with status 1.
RejectionModes == {"warn", "throw"}

\* A freshly started process.
ProcessInit ==
    /\ lpc = "testToken"
    /\ restart = TRUE
    /\ subscribed = FALSE
    /\ startup = "pending"
    /\ exited = FALSE
    /\ exitCode = 0
    /\ \E c \in Configs : /\ enableBreakTest = c.enableBreakTest
                          /\ lifxConfigured = c.lifxConfigured
    /\ unhandledRejections \in RejectionModes
    /\ pc = [h \in Msgs |-> "none"]
    /\ msg = [h \in Msgs |-> NoBody]
    /\ acks = [h \in Msgs |-> 0]
    /\ nacks = [h \in Msgs |-> 0]
    /\ trace = [h \in Msgs |-> {}]
    /\ io = [h \in Msgs |-> <<>>]
    /\ lockQueue = <<>>
    /\ lockHolder = 0
    /\ outDirExists = FALSE
    /\ outFiles = NoFiles

\* The process starts on a machine without the test directory.
Init ==
    /\ ProcessInit
    /\ processed = <<>>
    /\ testDirExists = FALSE
    /\ testFiles = NoFiles

\* ---------------------------------------------------------------- listener

\* testToken up to the await: the clientId check.
TestTokenStart(configured) ==
    /\ ~exited
    /\ lpc = "testToken"
    /\ IF configured
       THEN lpc' = "checkToken" /\ UNCHANGED <<startup, exitVars>>
       ELSE /\ lpc' = lpc /\ startup' = "configMissing"
            /\ exited' = TRUE /\ exitCode' = StartupExitCode
    /\ UNCHANGED <<restart, subscribed, configVars,
                   handlerVars, lockVars, testFsVars, outFsVars>>

\* A handler's promise rejects and nothing awaits or catches it
\* (messageHandler is called as an event listener).
UnhandledRejection ==
    IF unhandledRejections = "throw"
    THEN exited' = TRUE /\ exitCode' = 1
    ELSE UNCHANGED exitVars

\* listenForever() of the mainline rejects before its loop, unhandled: the
\* runtime ends the process with status 1, or it warns and the process then
\* ends by itself with status 0, no timer, socket or subscription being
\* left.
ListenForeverRejects ==
    /\ lpc' = "rejected"
    /\ exited' = TRUE
    /\ exitCode' = IF unhandledRejections = "throw" THEN 1 ELSE 0

CheckTokenDoneSwallowMut(result) ==
    /\ ~exited
    /\ lpc = "checkToken"
    /\ startup' = result
    /\ lpc' = "loop"
    /\ UNCHANGED <<restart, subscribed, exitVars, configVars,
                   handlerVars, lockVars, testFsVars, outFsVars>>

\* dsJwtAuth.checkToken() settles.  "ok": listenForever goes on to its loop.
\* "consent", "api": an API error body, process.exit().  "other": rethrown,
\* listenForever rejects before the loop.
CheckTokenDone(result) ==
    /\ ~exited
    /\ lpc = "checkToken"
    /\ startup' = result
    /\ CASE result = "ok" -> lpc' = "loop" /\ UNCHANGED exitVars
         [] result \in {"consent", "api"} ->
                lpc' = lpc /\ exited' = TRUE /\ exitCode' = StartupExitCode
         [] OTHER -> ListenForeverRejects
    /\ UNCHANGED <<restart, subscribed, configVars,
                   handlerVars, lockVars, testFsVars, outFsVars>>

\* while (true) { if (restart) { await startQueue() ...: startQueue up to its
\* first await.  ok: the listener is attached and startQueue returns, the loop
\* sleeps (line 176).  Otherwise the catch block removes the listener and
\* sleeps (line 167).
StartQueue(ok) ==
    /\ ~exited
    /\ lpc = "loop"
    /\ restart
    /\ IF ok
       THEN subscribed' = TRUE /\ lpc' = "sleepAfterStart"
       ELSE subscribed' = FALSE /\ lpc' = "coolDown"
    /\ UNCHANGED <<restart, startup, exitVars, configVars, handlerVars,
                   lockVars, testFsVars, outFsVars>>

\* The catch block's sleep(5) is over: restart = true, startQueue returns and
\* the loop sleeps (line 176).
CoolDownDone ==
    /\ ~exited
    /\ lpc = "coolDown"
    /\ restart' = TRUE
    /\ lpc' = "sleepAfterStart"
    /\ UNCHANGED <<subscribed, startup, exitVars, configVars,
                   handlerVars, lockVars, testFsVars, outFsVars>>

\* The sleep(5) of line 176 is over: restart = false, then the sleep of
\* line 179.
SleepAfterStartDone ==
    /\ ~exited
    /\ lpc = "sleepAfterStart"
    /\ restart' = FALSE
    /\ lpc' = "sleep"
    /\ UNCHANGED <<subscribed, startup, exitVars, configVars,
                   handlerVars, lockVars, testFsVars, outFsVars>>

\* The sleep(5) of line 179 is over: the loop tests restart again.
SleepDone ==
    /\ ~exited
    /\ lpc = "sleep"
    /\ lpc' = IF restart THEN "loop" ELSE "sleep"
    /\ UNCHANGED <<restart, subscribed, startup, exitVars, configVars,
                   handlerVars, lockVars, testFsVars, outFsVars>>

\* ----------------------------------------------------------------- handler

Set(f, h, v) == [f EXCEPT ![h] = v]

Did(h, what) == [trace EXCEPT ![h] = @ \cup {what}]

\* if (test): a non-empty string is truthy.
IsTest(b) == b.json /\ b.test # <<>>

BreakRequestedNeverMut(value) == FALSE

BreakRequestedExactMut(value) == enableBreakTest /\ value = BreakMarker

\* dsConfig.enableBreakTest && ("" + value).includes("/break")
BreakRequested(value) == enableBreakTest /\ Includes(value, BreakMarker)

\* The elements of EnvelopeStatus read with [0] at lines 61-67; Completed
\* is read only when the status is Completed.
ElementsRead(x) ==
    {"EnvelopeID", "Created", "Status", "Subject", "UserName", "Email"}
        \cup (IF x.status = "Completed" THEN {"Completed"} ELSE {})

\* Lines 59-70 throw (the parse error, or a TypeError reading a missing
\* element) for these notifications.
DecodeThrows(x) ==
    \/ ~x.wellFormed
    \/ ~x.hasEnvelopeStatus
    \/ x.absent \cap ElementsRead(x) # {}
    \/ ~x.hasCustomFields

LockFreeAlwaysMut == TRUE

\* async-lock runs one function per key at a time.
LockFree == lockHolder = 0

\* The lock is given to invocation g and processTest(value) runs up to its
\* first await: the break check (process.exit(2)), the log line and the call
\* of fse.exists.  p is pc as the rest of the step leaves it; rejecting says
\* that the step also leaves a handler's promise rejected.
StartProcessTest(g, value, p, rejecting) ==
    /\ lockHolder' = g
    /\ IF BreakRequested(value)
       THEN /\ exited' = TRUE
            /\ exitCode' = BreakExitCode
            /\ pc' = Set(p, g, "lockWait")
            /\ UNCHANGED processed
       ELSE /\ processed' = Append(processed, value)
            /\ pc' = Set(p, g, "tExists")
            /\ IF rejecting THEN UnhandledRejection ELSE UNCHANGED exitVars

\* messageHandler is called with a message; the code up to the first await.
\* A bad body is logged and acked at once.  A test value asks for the lock
\* "test_data": processTest starts at once when the lock is free, otherwise
\* the invocation is queued.  Otherwise parseStringAsync(xml) is started.
MessageHandler(h, b) ==
    /\ ~exited
    /\ subscribed
    /\ pc[h] = "none"
    /\ IF h = 1 THEN TRUE ELSE pc[h - 1] # "none"  \* numbered as delivered
    /\ msg' = Set(msg, h, b)
    /\ IF ~b.json
       THEN /\ acks' = Set(acks, h, acks[h] + 1)
            /\ pc' = Set(pc, h, "done")
            /\ UNCHANGED <<lockVars, processed, exitVars>>
       ELSE IF IsTest(b)
       THEN /\ IF LockFree
               THEN /\ StartProcessTest(h, b.test, pc, FALSE)
                    /\ UNCHANGED lockQueue
               ELSE /\ lockQueue' = Append(lockQueue, h)
                    /\ pc' = Set(pc, h, "lockWait")
                    /\ UNCHANGED <<lockHolder, processed, exitVars>>
            /\ UNCHANGED acks
       ELSE /\ pc' = Set(pc, h, "parse")
            /\ UNCHANGED <<acks, lockVars, processed, exitVars>>
    /\ UNCHANGED <<listenerVars, configVars, nacks, trace, io,
                   testDirExists, testFiles, outFsVars>>

\* ------------------------------------------- file system calls in flight
\* An fs-extra call runs in the thread pool while its handler is suspended:
\* its effect on the disk is there before the handler is resumed, and other
\* callbacks run in between.  io[h] is what the pool has done so far for the
\* call handler h awaits: <<>> nothing yet, <<1>> or <<0>> exists saw the
\* directory or not, <<1>> mkdir made the directory, <<n>> writeFile opened
\* the file and wrote n characters.

InTestCall(h) == pc[h] \in {"tExists", "tMkdir", "tWrite"}

\* The file written by handler h and the data it writes.
WriteName(h) ==
    IF pc[h] = "tWrite" THEN 1 ELSE FileName(getOrderNumber(msg[h].xml))

WriteData(h) ==
    IF pc[h] = "tWrite" THEN msg[h].test ELSE Doc(msg[h].xml.envelopeId)

\* fse.exists looks at the directory.
PoolExists(h) ==
    /\ ~exited
    /\ pc[h] \in {"tExists", "sExists"}
    /\ io[h] = <<>>
    /\ io' = Set(io, h, IF (IF InTestCall(h) THEN testDirExists
                                             ELSE outDirExists)
                         THEN <<1>> ELSE <<0>>)
    /\ UNCHANGED <<listenerVars, exitVars, configVars, pc, msg, acks, nacks,
                   trace, lockVars, testFsVars, outFsVars>>

\* fse.mkdir makes the directory; it cannot when the directory is there.
PoolMkdir(h) ==
    /\ ~exited
    /\ pc[h] \in {"tMkdir", "sMkdir"}
    /\ io[h] = <<>>
    /\ IF InTestCall(h)
       THEN /\ ~testDirExists
            /\ testDirExists' = TRUE
            /\ UNCHANGED outDirExists
       ELSE /\ ~outDirExists
            /\ outDirExists' = TRUE
            /\ UNCHANGED testDirExists
    /\ io' = Set(io, h, <<1>>)
    /\ UNCHANGED <<listenerVars, exitVars, configVars, pc, msg, acks, nacks,
                   trace, lockVars, processed, testFiles, outFiles>>

\* The files after handler h's call has written data up to character n.
PoolWritten(files, h, k, n) ==
    LET name == WriteName(h)
        old == IF name \in DOMAIN files THEN files[name] ELSE <<>>
    IN WriteFile(files, name, WriteAt(old, WriteData(h), k, n))

\* fse.writeFile opens the file with flag 'w': created, or truncated.
PoolWriteOpen(h) ==
    /\ ~exited
    /\ pc[h] \in {"tWrite", "sWrite"}
    /\ io[h] = <<>>
    /\ io' = Set(io, h, <<0>>)
    /\ IF InTestCall(h)
       THEN /\ testFiles' = WriteFile(testFiles, WriteName(h), <<>>)
            /\ UNCHANGED outFiles
       ELSE /\ outFiles' = WriteFile(outFiles, WriteName(h), <<>>)
            /\ UNCHANGED testFiles
    /\ UNCHANGED <<listenerVars, exitVars, configVars, pc, msg, acks, nacks,
                   trace, lockVars, processed, testDirExists, outDirExists>>

\* fse.writeFile has written the data up to character n.
PoolWriteMore(h, n) ==
    /\ ~exited
    /\ pc[h] \in {"tWrite", "sWrite"}
    /\ io[h] # <<>>
    /\ n \in (Head(io[h]) + 1)..Len(WriteData(h))
    /\ io' = Set(io, h, <<n>>)
    /\ IF InTestCall(h)
       THEN /\ testFiles' = PoolWritten(testFiles, h, Head(io[h]), n)
            /\ UNCHANGED outFiles
       ELSE /\ outFiles' = PoolWritten(outFiles, h, Head(io[h]), n)
            /\ UNCHANGED testFiles
    /\ UNCHANGED <<listenerVars, exitVars, configVars, pc, msg, acks, nacks,
                   trace, lockVars, processed, testDirExists, outDirExists>>

\* ------------------------------------------------ process: the test path

\* The shift loop and the call of fse.writeFile(test1.txt).
ShiftAndStartWrite(h) ==
    /\ testFiles' = Shift(testFiles)
    /\ pc' = Set(pc, h, "tWrite")

\* The function run under the lock has settled, leaving handler h at nextPc:
\* async-lock hands the lock to the longest-waiting invocation and runs it
\* at once, before anything else of the process.
Release(h, nextPc, rejecting) ==
    IF lockQueue = <<>>
    THEN /\ lockHolder' = 0
         /\ pc' = Set(pc, h, nextPc)
         /\ IF rejecting THEN UnhandledRejection ELSE UNCHANGED exitVars
         /\ UNCHANGED <<lockQueue, processed>>
    ELSE /\ lockQueue' = Tail(lockQueue)
         /\ StartProcessTest(Head(lockQueue), msg[Head(lockQueue)].test,
                             Set(pc, h, nextPc), rejecting)

ProcessTestThrowsAckMut(h) == Release(h, "ack", FALSE)

\* processTest throws: the lock is released and the handler's promise
\* rejects, unhandled.
ProcessTestThrows(h) == Release(h, "rejected", TRUE)

\* processTest returns: the lock is released and the handler goes on to
\* message.ack().
ProcessTestReturns(h) == Release(h, "ack", FALSE)

\* fse.exists(testOutputDir) settles: mkdir is called when the directory was
\* missing, otherwise the files are shifted and the write is started.
TestExistsDone(h) ==
    /\ ~exited
    /\ pc[h] = "tExists"
    /\ io[h] # <<>>
    /\ io' = Set(io, h, <<>>)
    /\ IF io[h] = <<1>>
       THEN ShiftAndStartWrite(h)
       ELSE pc' = Set(pc, h, "tMkdir") /\ UNCHANGED testFiles
    /\ UNCHANGED <<listenerVars, exitVars, configVars, msg, acks, nacks,
                   trace, lockVars, processed, testDirExists, outFsVars>>

\* fse.mkdir(testOutputDir) settles; ok: the directory was made.
TestMkdirDone(h, ok) ==
    /\ ~exited
    /\ pc[h] = "tMkdir"
    /\ ok = (io[h] # <<>>)
    /\ io' = Set(io, h, <<>>)
    /\ IF ok
       THEN /\ ShiftAndStartWrite(h)
            /\ UNCHANGED <<lockVars, processed, exitVars>>
       ELSE /\ ProcessTestThrows(h)
            /\ UNCHANGED testFiles
    /\ UNCHANGED <<listenerVars, configVars, msg, acks, nacks,
                   trace, testDirExists, outFsVars>>

\* fse.writeFile(test1.txt, test) settles; ok: the whole value was written
\* and the file closed.  It fails with the file as the pool left it: not
\* opened, opened, written in part, or written and not closed properly.
TestWriteDone(h, ok) ==
    /\ ~exited
    /\ pc[h] = "tWrite"
    /\ ok => io[h] = <<Len(msg[h].test)>>
    /\ io' = Set(io, h, <<>>)
    /\ IF ok THEN ProcessTestReturns(h) ELSE ProcessTestThrows(h)
    /\ UNCHANGED <<listenerVars, configVars, msg, acks, nacks,
                   trace, testDirExists, testFiles, outFsVars>>

\* -------------------------------------------------- process: the xml path

\* Step 2 of process: the notification passes the filter.
Eligible(x) == x.status = "Completed" /\ getOrderNumber(x) # <<>>

\* parseStringAsync(xml) settles and process runs up to its next await:
\* the field reads of lines 60-70 (which may throw), the filter of lines
\* 90-97 (return: the handler goes on to ack), then saveDoc up to
\* dsJwtAuth.checkToken().
ParseDone(h) ==
    /\ ~exited
    /\ pc[h] = "parse"
    /\ IF DecodeThrows(msg[h].xml)
       THEN pc' = Set(pc, h, "rejected") /\ UnhandledRejection
       ELSE /\ pc' = Set(pc, h, IF ~Eligible(msg[h].xml) THEN "ack"
                                                         ELSE "token")
            /\ UNCHANGED exitVars
    /\ UNCHANGED <<listenerVars, configVars, msg, acks, nacks,
                   trace, io, lockVars, testFsVars, outFsVars>>

\* saveDoc's catch rethrows "saveDoc error", process's catch returns a
\* rejected promise, and messageHandler's await throws: the handler ends
\* before message.ack(), and nothing handles its rejection.
SaveDocThrows(h) ==
    /\ pc' = Set(pc, h, "rejected")
    /\ UnhandledRejection

FetchDoneOpensFileMut(h, ok) ==
    /\ ~exited
    /\ pc[h] = "fetch"
    /\ trace' = Did(h, IF ok THEN "fetch" ELSE "fetchFailed")
    /\ IF ok THEN /\ pc' = Set(pc, h, "sExists")
                  /\ UNCHANGED <<exitVars, outFiles>>
             ELSE /\ SaveDocThrows(h)
                  /\ outFiles' = WriteFile(outFiles,
                                    FileName(getOrderNumber(msg[h].xml)),
                                    <<>>)
    /\ UNCHANGED <<listenerVars, configVars, msg, acks, nacks, io,
                   lockVars, testFsVars, outDirExists>>

\* dsJwtAuth.checkToken() settles; ok: getDocument is called.
TokenDone(h, ok) ==
    /\ ~exited
    /\ pc[h] = "token"
    /\ trace' = Did(h, IF ok THEN "token" ELSE "tokenFailed")
    /\ IF ok THEN pc' = Set(pc, h, "fetch") /\ UNCHANGED exitVars
             ELSE SaveDocThrows(h)
    /\ UNCHANGED <<listenerVars, configVars, msg, acks, nacks, io,
                   lockVars, testFsVars, outFsVars>>

\* envelopesApi.getDocument settles; ok: the file name is computed and
\* fse.exists(outputDir) is called.
FetchDone(h, ok) ==
    /\ ~exited
    /\ pc[h] = "fetch"
    /\ trace' = Did(h, IF ok THEN "fetch" ELSE "fetchFailed")
    /\ IF ok THEN pc' = Set(pc, h, "sExists") /\ UNCHANGED exitVars
             ELSE SaveDocThrows(h)
    /\ UNCHANGED <<listenerVars, configVars, msg, acks, nacks, io,
                   lockVars, testFsVars, outFsVars>>

\* fse.exists(outputDir) settles: mkdir or writeFile is called.
SaveExistsDone(h) ==
    /\ ~exited
    /\ pc[h] = "sExists"
    /\ io[h] # <<>>
    /\ io' = Set(io, h, <<>>)
    /\ pc' = Set(pc, h, IF io[h] = <<1>> THEN "sWrite" ELSE "sMkdir")
    /\ UNCHANGED <<listenerVars, exitVars, configVars, msg, acks, nacks,
                   trace, lockVars, testFsVars, outFsVars>>

\* fse.mkdir(outputDir) settles; ok: the directory was made.  It fails when
\* the directory exists by now (another fulfillment made it after this
\* one's exists check) or on any other file-system error.
SaveMkdirDone(h, ok) ==
    /\ ~exited
    /\ pc[h] = "sMkdir"
    /\ ok = (io[h] # <<>>)
    /\ io' = Set(io, h, <<>>)
    /\ IF ok
       THEN /\ pc' = Set(pc, h, "sWrite")
            /\ UNCHANGED <<trace, exitVars>>
       ELSE /\ trace' = Did(h, "mkdirFailed")
            /\ SaveDocThrows(h)
    /\ UNCHANGED <<listenerVars, configVars, msg, acks, nacks,
                   lockVars, testFsVars, outFsVars>>

LightWantedAlwaysMut(x) == lifxConfigured

\* Line 117: the optional LIFX step is taken.
LightWanted(x) == getLightColor(x) # <<>> /\ lifxConfigured

\* fse.writeFile(outputDir/fileName, docResult) settles; ok: the whole
\* document was written and the file closed.  Then the break test of line
\* 179 throws, or saveDoc returns and process goes on to step 4: the LIFX
\* request is sent, or process returns and the handler acks.  The call fails
\* with the file as the pool left it.
SaveWriteDone(h, ok) ==
    /\ ~exited
    /\ pc[h] = "sWrite"
    /\ ok => io[h] = <<Len(Doc(msg[h].xml.envelopeId))>>
    /\ io' = Set(io, h, <<>>)
    /\ LET x == msg[h].xml
       IN IF ok
          THEN IF BreakRequested(getOrderNumber(x))
               THEN /\ trace' = Did(h, "written")
                    /\ SaveDocThrows(h)
               ELSE /\ trace' = [trace EXCEPT
                                   ![h] = @ \cup {"written", "saved"}]
                    /\ pc' = Set(pc, h, IF LightWanted(x) THEN "lifx"
                                                          ELSE "ack")
                    /\ UNCHANGED exitVars
          ELSE /\ trace' = Did(h, "writeFailed")
               /\ SaveDocThrows(h)
    /\ UNCHANGED <<listenerVars, configVars, msg, acks, nacks,
                   lockVars, testFsVars, outFsVars>>

LifxNextPcThrowsMut(ok) == IF ok THEN "ack" ELSE "rejected"

\* try {await rp(options)} catch(e) {}: process returns either way.
LifxNextPc(ok) == "ack"

\* The LIFX request settles.
LifxDone(h, ok) ==
    /\ ~exited
    /\ pc[h] = "lifx"
    /\ trace' = Did(h, IF ok THEN "lifx" ELSE "lifxFailed")
    /\ pc' = Set(pc, h, LifxNextPc(ok))
    /\ UNCHANGED <<listenerVars, exitVars, configVars, msg, acks, nacks, io,
                   lockVars, testFsVars, outFsVars>>

\* process has returned: try {message.ack()} catch (e) {...}
Ack(h) ==
    /\ ~exited
    /\ pc[h] = "ack"
    /\ acks' = Set(acks, h, acks[h] + 1)
    /\ pc' = Set(pc, h, "done")
    /\ UNCHANGED <<listenerVars, exitVars, configVars, msg, nacks, trace, io,
                   lockVars, testFsVars, outFsVars>>

\* ----------------------------------------------------------- specification

ListenerNext ==
    \/ \E configured \in BOOLEAN : TestTokenStart(configured)
    \/ \E r \in {"ok", "consent", "api", "other"} : CheckTokenDone(r)
    \/ \E ok \in BOOLEAN : StartQueue(ok)
    \/ CoolDownDone
    \/ SleepAfterStartDone
    \/ SleepDone

\* The thread pool's steps for the call handler h awaits.
PoolNext(h) ==
    \/ PoolExists(h)
    \/ PoolMkdir(h)
    \/ PoolWriteOpen(h)
    \/ \E n \in 1..Len(WriteData(h)) : PoolWriteMore(h, n)

HandlerNext ==
    \E h \in 1..MaxMsgs :
        \/ \E b \in Bodies : MessageHandler(h, b)
        \/ PoolNext(h)
        \/ TestExistsDone(h)
        \/ \E ok \in BOOLEAN : TestMkdirDone(h, ok)
        \/ \E ok \in BOOLEAN : TestWriteDone(h, ok)
        \/ ParseDone(h)
        \/ \E ok \in BOOLEAN : TokenDone(h, ok)
        \/ \E ok \in BOOLEAN : FetchDone(h, ok)
        \/ SaveExistsDone(h)
        \/ \E ok \in BOOLEAN : SaveMkdirDone(h, ok)
        \/ \E ok \in BOOLEAN : SaveWriteDone(h, ok)
        \/ \E ok \in BOOLEAN : LifxDone(h, ok)
        \/ Ack(h)

Next == ListenerNext \/ HandlerNext

Spec == Init /\ [][Next]_vars

\* Timers and I/O callbacks of a running process do fire: the listener's
\* next step and every handler's next step are eventually taken.
FairSpec == Spec /\ WF_vars(ListenerNext) /\ WF_vars(HandlerNext)

\* ------------------------------------------------------------------ claims

\* The handler has ended: it returned after message.ack(), or its promise
\* rejected.
Finished(h) == pc[h] \in {"done", "rejected"}

IsXml(b) == b.json /\ ~IsTest(b)

\* Status Completed and the business-key custom field present and non-empty.
EligibleMsg(h) ==
    /\ IsXml(msg[h])
    /\ ~DecodeThrows(msg[h].xml)
    /\ Eligible(msg[h].xml)

FulfillmentFailed(h) ==
    \/ trace[h] \cap {"tokenFailed", "fetchFailed", "mkdirFailed",
                      "writeFailed"} # {}
    \/ "written" \in trace[h] /\ "saved" \notin trace[h]

\* C1: an eligible message whose fulfillment failed is nacked exactly once
\* and never acked.
C1_NackOnFulfillmentFailure ==
    \A h \in Msgs :
        (EligibleMsg(h) /\ Finished(h) /\ FulfillmentFailed(h))
            => (nacks[h] = 1 /\ acks[h] = 0)

\* C2: once the handler has finished, exactly one of ack() and nack() has
\* been called for the message, exactly once.
C2_ExactlyOneAckOrNack ==
    \A h \in Msgs : Finished(h) => acks[h] + nacks[h] = 1

\* The notification parses and has its envelope-status section.
Decodable(b) == IsXml(b) /\ b.xml.wellFormed /\ b.xml.hasEnvelopeStatus

\* The business-key custom field is there, with content.
HasBusinessKey(x) == x.hasCustomFields /\ getOrderNumber(x) # <<>>

\* C3: a decodable message that is ineligible (status not Completed, or no
\* business key) is acked, and no token check, document fetch, file write or
\* LIFX call is made for it.
C3_IneligibleAckedUntouched ==
    \A h \in Msgs :
        (Decodable(msg[h])
           /\ ~(msg[h].xml.status = "Completed" /\ HasBusinessKey(msg[h].xml)))
            => /\ trace[h] = {}
               /\ pc[h] \in {"parse", "ack", "done"}
               /\ nacks[h] = 0
               /\ Finished(h) => acks[h] = 1

\* The body is not JSON, the XML is not well-formed, or the envelope-status
\* section is missing.
Undecodable(b) ==
    \/ ~b.json
    \/ IsXml(b) /\ (~b.xml.wellFormed \/ ~b.xml.hasEnvelopeStatus)

\* C4: an undecodable message is acked and dropped, never nacked and never
\* left un-acked.
C4_UndecodableAcked ==
    \A h \in Msgs :
        (pc[h] # "none" /\ Undecodable(msg[h]))
            => /\ nacks[h] = 0
               /\ pc[h] \in {"parse", "ack", "done"}
               /\ Finished(h) => acks[h] = 1

\* C5: once the fulfillment of a message has succeeded the handler can only
\* go on to ack it, whatever the LIFX request does: it is acked exactly once
\* when the handler ends, and never nacked.
C5_AckDespiteActuation ==
    \A h \in Msgs :
        "saved" \in trace[h]
            => /\ pc[h] \in {"lifx", "ack", "done"}
               /\ nacks[h] = 0
               /\ pc[h] = "done" => acks[h] = 1

C5_Witness ==
    \E h \in Msgs :
        /\ "saved" \in trace[h]
        /\ "lifxFailed" \in trace[h]
        /\ pc[h] = "done"
        /\ acks[h] = 1

\* C6: a failed subscribe attempt (startQueue's catch block, the cool-down)
\* is always eventually followed by another subscribe attempt.
C6_ResubscribeAfterFailure ==
    [](lpc = "coolDown" => <>(lpc = "loop" /\ restart /\ ~exited))

InSequence(h) == pc[h] \in {"tExists", "tMkdir", "tWrite"}

\* C7: at most one handler is inside processTest's shift-and-write sequence,
\* and it is the one that holds the lock.
C7_HarnessMutualExclusion ==
    /\ Cardinality({h \in Msgs : InSequence(h)}) <= 1
    /\ \A h \in Msgs : InSequence(h) => lockHolder = h

C7_Witness ==
    \E h1, h2 \in Msgs :
        /\ pc[h1] = "tWrite"
        /\ pc[h2] = "lockWait"
        /\ ~exited

NoTestFailure ==
    \A h \in Msgs : ~(IsTest(msg[h]) /\ pc[h] = "rejected")

\* The markers after the values vs have been processed in that order.
RingOf(vs) == [i \in 1..Len(vs) |-> vs[Len(vs) - i + 1]]

\* C8: from an empty test directory, after v1..vK (K at most the ring size)
\* have been processed in that order, test{i}.txt holds v(K-i+1).
C8_RingOrder ==
    (lockHolder = 0 /\ NoTestFailure /\ Len(processed) <= RingTop + 1)
        => testFiles = RingOf(processed)

C8_Witness ==
    /\ lockHolder = 0
    /\ NoTestFailure
    /\ Len(processed) = 2
    /\ processed[1] # processed[2]
    /\ testFiles = (1 :> processed[2] @@ 2 :> processed[1])

IsBreakTest(h) ==
    enableBreakTest /\ IsTest(msg[h]) /\ Includes(msg[h].test, BreakMarker)

\* C9: with break testing enabled, a test value with the break marker never
\* enters the shift-and-write sequence and is never acked; when its turn
\* comes the process exits with the non-zero status 2, and that step leaves
\* the marker files and the test directory as they were.
C9_BreakExit ==
    /\ [](\A h \in Msgs :
            IsBreakTest(h)
                => /\ pc[h] = "lockWait"
                   /\ acks[h] = 0
                   /\ lockHolder = h
                        => (exited /\ exitCode = BreakExitCode /\ exitCode # 0))
    /\ [][\A h \in Msgs :
            (IsBreakTest(h) /\ lockHolder # h /\ lockHolder' = h)
                => /\ exited'
                   /\ testFiles' = testFiles
                   /\ testDirExists' = testDirExists
                   /\ processed' = processed
                   /\ acks' = acks]_vars

C9_Witness ==
    \E h \in Msgs :
        /\ IsBreakTest(h)
        /\ lockHolder = h
        /\ exited
        /\ exitCode = BreakExitCode
        /\ 1 \in DOMAIN testFiles

\* The path saveDoc writes for message h, inside outputDir.
ArtifactPath(h) ==
    outputFilePefix \o Sanitize(getOrderNumber(msg[h].xml)) \o PdfSuffix

\* Message g has opened the file at path p for writing, or its writeFile
\* has settled.
WroteTo(g, p) ==
    /\ EligibleMsg(g)
    /\ ArtifactPath(g) = p
    /\ \/ trace[g] \cap {"written", "writeFailed"} # {}
       \/ pc[g] = "sWrite" /\ io[g] # <<>>

\* The messages that have opened the file at path p for writing.
WritersOf(p) == {g \in Msgs : WroteTo(g, p)}

\* Every unit of data in the file at path p was put there by one of the
\* writes to p, at the place it has in that write's document; a write that
\* goes on after another has truncated the file leaves a hole before it.
MadeOf(file, p) ==
    \A i \in 1..Len(file) :
        \/ file[i] = Hole
        \/ \E g \in WritersOf(p) :
              LET doc == Doc(msg[g].xml.envelopeId)
              IN i <= Len(doc) /\ file[i] = doc[i]

\* C10: the output directory holds no file but the artifacts of the messages
\* fulfilled, and once the writes for business key K have completed the
\* file outputDir/<prefix>sanitize(K).pdf holds the whole document one of
\* them fetched (overwrite semantics): the one document when the message
\* was fulfilled twice for the same envelope.
C10_FulfillmentIdempotent ==
    /\ \A n \in DOMAIN outFiles : WritersOf(n) # {}
    /\ \A h \in Msgs :
          "written" \in trace[h]
              => LET path == ArtifactPath(h)
                 IN /\ path \in DOMAIN outFiles
                    /\ (\A g \in WritersOf(path) :
                           /\ getOrderNumber(msg[g].xml)
                                  = getOrderNumber(msg[h].xml)
                           /\ "written" \in trace[g])
                          => \E g \in WritersOf(path) :
                                outFiles[path] = Doc(msg[g].xml.envelopeId)

KeyOf(h) == getOrderNumber(msg[h].xml)

\* C11 as stated: two distinct eligible business keys never share an output
\* path.
C11_DistinctKeysDistinctPaths ==
    \A h1, h2 \in Msgs :
        (EligibleMsg(h1) /\ EligibleMsg(h2) /\ KeyOf(h1) # KeyOf(h2))
            => ArtifactPath(h1) # ArtifactPath(h2)

\* A character that ends up as '_' in the file name.
TurnsUnderscore(c) == c = "_" \/ c \notin WordChars

\* The keys have the same length and differ only where both turn into '_'.
SameUpToNonWord(k1, k2) ==
    /\ Len(k1) = Len(k2)
    /\ \A i \in 1..Len(k1) :
          k1[i] = k2[i] \/ (TurnsUnderscore(k1[i]) /\ TurnsUnderscore(k2[i]))

\* C11 (amended): two eligible keys share an output path exactly when they
\* have the same length and differ only at characters that are non-word
\* characters or '_'; the artifact written for a message is only ever
\* replaced by the write of a message whose key collides with it in that way
\* (or is the same key), and the file then holds, unit by unit, what those
\* writes put there: the document written last, or a mix of the documents
\* when the writes overlap.
C11_PathsCollideOnlyOnNonWord ==
    /\ \A h1, h2 \in Msgs :
          (EligibleMsg(h1) /\ EligibleMsg(h2))
              => ((ArtifactPath(h1) = ArtifactPath(h2))
                     <=> SameUpToNonWord(KeyOf(h1), KeyOf(h2)))
    /\ \A h \in Msgs :
          "written" \in trace[h]
              => /\ ArtifactPath(h) \in DOMAIN outFiles
                 /\ MadeOf(outFiles[ArtifactPath(h)], ArtifactPath(h))
                 /\ outFiles[ArtifactPath(h)] # Doc(msg[h].xml.envelopeId)
                      => \E h2 \in Msgs \ {h} :
                            /\ SameUpToNonWord(KeyOf(h), KeyOf(h2))
                            /\ WroteTo(h2, ArtifactPath(h))

C11_Witness ==
    \E h1, h2 \in Msgs :
        /\ KeyOf(h1) # KeyOf(h2)
        /\ SameUpToNonWord(KeyOf(h1), KeyOf(h2))
        /\ "saved" \in trace[h1]
        /\ "saved" \in trace[h2]
        /\ outFiles[ArtifactPath(h1)] # Doc(msg[h1].xml.envelopeId)
        /\ outFiles[ArtifactPath(h1)] # Doc(msg[h2].xml.envelopeId)
        /\ Len(outFiles[ArtifactPath(h1)]) = Len(Doc(msg[h2].xml.envelopeId))
        /\ outFiles[ArtifactPath(h1)][2] = msg[h1].xml.envelopeId

\* ------------------------------------------- fulfillment over many keys

KeyAlphabet == {"A", "1", "_", "-", "/"}

\* The key of the specification's example, "SO-123/A".
ExampleKey == <<"S", "O", "-", "1", "2", "3", "/", "A">>

KeyInputs ==
    UNION {[1..n -> KeyAlphabet] : n \in 1..MaxKeyLen} \cup {ExampleKey}

\* A completed envelope with the business key k and a light colour.
KeyBodies ==
    {XmlBody(Xml(TRUE, TRUE, TRUE, "E1", "Completed",
                 <<Field(envelopeCustomField, k),
                   Field(envelopeColorCustomField, Red)>>)) : k \in KeyInputs}

\* One notification, with any of the keys, through the same handler steps.
KeyNext ==
    \/ ListenerNext
    \/ \E b \in KeyBodies : MessageHandler(1, b)
    \/ PoolNext(1)
    \/ ParseDone(1)
    \/ \E ok \in BOOLEAN : TokenDone(1, ok)
    \/ \E ok \in BOOLEAN : FetchDone(1, ok)
    \/ SaveExistsDone(1)
    \/ \E ok \in BOOLEAN : SaveMkdirDone(1, ok)
    \/ \E ok \in BOOLEAN : SaveWriteDone(1, ok)
    \/ \E ok \in BOOLEAN : LifxDone(1, ok)
    \/ Ack(1)

KeySpec == Init /\ [][KeyNext]_vars

ExampleFile ==
    <<"O", "r", "d", "e", "r", "_",
      "S", "O", "_", "1", "2", "3", "_", "A", ".", "p", "d", "f">>

\* C12: the file written for a key K is named prefix + sanitize(K) + '.pdf',
\* where sanitize(K) has the length of K, keeps every word character in its
\* place and has '_' at every other position; "SO-123/A" gives "SO_123_A".
C12_SanitizedFileName ==
    \A h \in Msgs :
        "written" \in trace[h]
            => LET k == KeyOf(h)
                   p == Len(outputFilePefix)
               IN \E n \in DOMAIN outFiles :
                     /\ DOMAIN outFiles = {n}
                     /\ Len(n) = p + Len(k) + Len(PdfSuffix)
                     /\ SubSeq(n, 1, p) = outputFilePefix
                     /\ SubSeq(n, p + Len(k) + 1, Len(n)) = PdfSuffix
                     /\ \A i \in 1..Len(k) :
                           n[p + i] = IF k[i] \in WordChars THEN k[i] ELSE "_"
                     /\ k = ExampleKey => n = ExampleFile

C12_Witness ==
    \E h \in Msgs :
        /\ "written" \in trace[h]
        /\ KeyOf(h) = ExampleKey
        /\ DOMAIN outFiles = {ExampleFile}

\* C13: the listener is in its subscribe loop, is subscribed or has handled
\* a message only if the startup token check succeeded; after a failed check
\* (configuration missing, consent required, API error, other error) the
\* process has exited or listenForever has rejected, without subscribing.
C13_SubscribeOnlyAfterTokenCheck ==
    /\ startup # "ok"
          => /\ ~subscribed
             /\ \A h \in Msgs : pc[h] = "none"
             /\ lpc \in {"testToken", "checkToken", "rejected"}
    /\ startup \notin {"pending", "ok"} => (exited \/ lpc = "rejected")

C13_Witness ==
    /\ startup = "consent"
    /\ exited
    /\ ~subscribed
    /\ \A h \in Msgs : pc[h] = "none"

\* C14: the process is never ended by a failed fulfillment: when a message's
\* fulfillment has failed and the process has exited, the exit was the
\* harness break of a test message.
C14_FulfillmentFailureConfined ==
    (exited /\ \E h \in Msgs : FulfillmentFailed(h) /\ pc[h] = "rejected")
        => \E h \in Msgs : lockHolder = h /\ IsBreakTest(h)

\* Another message is writing, wrote or failed while writing the path of
\* message h.
PathTouchedByOther(h) ==
    \E g \in Msgs \ {h} : WroteTo(g, ArtifactPath(h))

\* The artifact of message h is on disk: the file exists, and it holds the
\* fetched document unless another message has opened the same path for
\* writing; then it holds what the writes to the path have put there.
ArtifactStored(h) ==
    /\ ArtifactPath(h) \in DOMAIN outFiles
    /\ MadeOf(outFiles[ArtifactPath(h)], ArtifactPath(h))
    /\ \/ outFiles[ArtifactPath(h)] = Doc(msg[h].xml.envelopeId)
       \/ PathTouchedByOther(h)

AckCalled(h) == pc[h] \in {"ack", "done"} \/ acks[h] > 0

\* The value of test message h is in one of the files of the ring.
MarkerStored(h) ==
    /\ testDirExists
    /\ \E i \in DOMAIN testFiles : testFiles[i] = msg[h].test

\* C15 as stated: message.ack() is reached only after the side effect is
\* complete, and from then on, whatever happens (an exit included), the
\* artifact of an acked eligible message is in its file and the value of an
\* acked test message is in the ring.
C15_NoAckedMessageLost ==
    \A h \in Msgs :
        /\ (EligibleMsg(h) /\ AckCalled(h))
              => /\ "saved" \in trace[h]
                 /\ ArtifactPath(h) \in DOMAIN outFiles
                 /\ outFiles[ArtifactPath(h)] = Doc(msg[h].xml.envelopeId)
        /\ (pc[h] # "none" /\ IsTest(msg[h]) /\ AckCalled(h))
              => MarkerStored(h)

\* C15 (amended): message.ack() is reached for an eligible message only
\* after its artifact write has completed, and for a test message only after
\* its value has been written to test1.txt (where later values shift it up
\* the ring).  Whatever happens afterwards, an exit included, the file of an
\* acked eligible message exists, and it holds exactly the message's
\* artifact unless another delivery has opened the same path for writing;
\* then it holds what the writes to that path have put there.  The value of
\* an acked test message is in the ring.
C15_AckOnlyAfterSideEffect ==
    \A h \in Msgs :
        /\ (EligibleMsg(h) /\ AckCalled(h))
              => ("saved" \in trace[h] /\ ArtifactStored(h))
        /\ (pc[h] # "none" /\ IsTest(msg[h]) /\ AckCalled(h))
              => MarkerStored(h)

C15_Witness ==
    \E h1, h2 \in Msgs :
        /\ EligibleMsg(h1)
        /\ EligibleMsg(h2)
        /\ h1 < h2
        /\ KeyOf(h1) = KeyOf(h2)
        /\ acks[h1] = 1
        /\ acks[h2] = 1
        /\ outFiles[ArtifactPath(h1)] = Doc(msg[h2].xml.envelopeId)
        /\ outFiles[ArtifactPath(h1)] # Doc(msg[h1].xml.envelopeId)

\* Break testing is on and the business key of eligible message h holds the
\* break marker.
IsBreakKey(h) ==
    /\ pc[h] # "none"
    /\ enableBreakTest
    /\ EligibleMsg(h)
    /\ Includes(KeyOf(h), BreakMarker)

NoStepFailed(h) ==
    trace[h] \cap {"tokenFailed", "fetchFailed", "mkdirFailed",
                   "writeFailed"} = {}

\* C16: a message whose key holds the break marker is never saved, actuated
\* or acked; its fulfillment fails without any step having failed only after
\* the fetch and the file write, and then the artifact is on disk.  This
\* holds for every delivery of the message.
C16_BreakAfterWrite ==
    \A h \in Msgs :
        IsBreakKey(h)
            => /\ "saved" \notin trace[h]
               /\ trace[h] \cap {"lifx", "lifxFailed"} = {}
               /\ pc[h] \notin {"lifx", "ack", "done"}
               /\ acks[h] = 0
               /\ (pc[h] = "rejected" /\ NoStepFailed(h))
                     => "written" \in trace[h]
               /\ "written" \in trace[h]
                     => /\ "fetch" \in trace[h]
                        /\ pc[h] = "rejected"
                        /\ FulfillmentFailed(h)
                        /\ ArtifactStored(h)

C16_Witness ==
    \E h1, h2 \in Msgs :
        /\ h1 # h2
        /\ msg[h1] = msg[h2]
        /\ IsBreakKey(h1)
        /\ getLightColor(msg[h1].xml) # <<>>
        /\ lifxConfigured
        /\ trace[h1] = {"token", "fetch", "written"}
        /\ trace[h2] = {"token", "fetch", "written"}
        /\ pc[h1] = "rejected"
        /\ pc[h2] = "rejected"
        /\ outFiles[ArtifactPath(h1)] = Doc(msg[h1].xml.envelopeId)

LifxAttempted(h) ==
    pc[h] = "lifx" \/ trace[h] \cap {"lifx", "lifxFailed"} # {}

\* C17: fulfillment steps are taken only for a decoded message that passed
\* the filter; the LIFX request is sent only after saveDoc returned and only
\* when the light-color field is present; and message.ack() is reached only
\* once the LIFX request, when one is due, has settled.
C17_StepOrder ==
    \A h \in Msgs :
        /\ trace[h] # {} => (pc[h] # "none" /\ EligibleMsg(h))
        /\ pc[h] \in {"token", "fetch", "sExists", "sMkdir", "sWrite", "lifx"}
              => (EligibleMsg(h) /\ acks[h] = 0)
        /\ LifxAttempted(h)
              => /\ "saved" \in trace[h]
                 /\ getLightColor(msg[h].xml) # <<>>
        /\ (EligibleMsg(h) /\ AckCalled(h))
              => /\ "saved" \in trace[h]
                 /\ LightWanted(msg[h].xml)
                       => trace[h] \cap {"lifx", "lifxFailed"} # {}

C17_Witness ==
    \E h1, h2 \in Msgs :
        /\ EligibleMsg(h1)
        /\ "lifxFailed" \in trace[h1]
        /\ acks[h1] = 1
        /\ EligibleMsg(h2)
        /\ lifxConfigured
        /\ getLightColor(msg[h2].xml) = <<>>
        /\ "saved" \in trace[h2]
        /\ ~LifxAttempted(h2)
        /\ acks[h2] = 1

\* Test values written by earlier runs of the harness.
EarlierChars ==
    <<"a", "b", "c", "d", "e", "f", "g", "h", "i", "j",
      "k", "l", "m", "n", "o", "p", "q", "r", "s", "t">>

EarlierValues(n) == [j \in 1..n |-> <<EarlierChars[j]>>]

\* The process starts with the test directory as earlier test messages left
\* it: absent, or holding the markers of 19 or of 20 values.
RingInit ==
    /\ ProcessInit
    /\ \E n \in {0, RingTop, RingTop + 1} :
          /\ processed = EarlierValues(n)
          /\ testDirExists = (n > 0)
          /\ testFiles = RingOf(EarlierValues(n))

\* Only test messages are delivered.
RingHandlerNext ==
    \E h \in 1..MaxTestMsgs :
        \/ \E v \in TestValues : MessageHandler(h, TestBody(v))
        \/ PoolNext(h)
        \/ TestExistsDone(h)
        \/ \E ok \in BOOLEAN : TestMkdirDone(h, ok)
        \/ \E ok \in BOOLEAN : TestWriteDone(h, ok)
        \/ Ack(h)

RingNext == ListenerNext \/ RingHandlerNext

RingSpec == RingInit /\ [][RingNext]_vars

\* The harness on a machine without the test directory, with the timers and
\* I/O callbacks of the running process eventually firing.
FairHarnessSpec ==
    /\ Init
    /\ [][RingNext]_vars
    /\ WF_vars(ListenerNext)
    /\ WF_vars(RingHandlerNext)

LastN(vs, n) == SubSeq(vs, Len(vs) - n + 1, Len(vs))

RingSize == RingTop + 1

Min(a, b) == IF a < b THEN a ELSE b

\* C18: the test directory never holds a marker beyond test20.txt, and once
\* K values have been processed without a failure the markers are exactly
\* the min(K, 20) most recent values, newest in test1.txt; a value beyond
\* the 20th drops the content test20.txt had and nothing else.
C18_BoundedRing ==
    /\ DOMAIN testFiles \subseteq 1..RingSize
    /\ (lockHolder = 0 /\ NoTestFailure)
          => testFiles = RingOf(LastN(processed,
                                      Min(Len(processed), RingSize)))

C18_Witness ==
    /\ lockHolder = 0
    /\ NoTestFailure
    /\ Len(processed) = RingSize + 1
    /\ DOMAIN testFiles = 1..RingSize
    /\ testFiles[1] = processed[RingSize + 1]
    /\ testFiles[2] = processed[RingSize]
    /\ testFiles[RingSize] = processed[2]
    /\ \A i \in DOMAIN testFiles : testFiles[i] # processed[1]

\* C19 as stated, for an installation with break testing off (no test value
\* exits the process by design): every queued test message eventually runs
\* the shift-and-write sequence.
C19_EveryQueuedTestRuns ==
    \A h \in Msgs :
        (pc[h] = "lockWait" /\ ~enableBreakTest) ~> InSequence(h)

FailedEarly(t) == t \cap {"tokenFailed", "fetchFailed"} # {}

\* C20: the step in which checkToken or getDocument fails leaves the output
\* directory and every file in it as they were, and a fulfillment that
\* failed there never reaches mkdir or writeFile.
C20_EarlyFailureLeavesFiles ==
    /\ [](\A h \in Msgs :
            FailedEarly(trace[h])
                => /\ pc[h] = "rejected"
                   /\ trace[h] \cap {"mkdirFailed", "written", "writeFailed",
                                     "saved"} = {})
    /\ [][\A h \in Msgs :
            (~FailedEarly(trace[h]) /\ FailedEarly(trace'[h]))
                => (outFiles' = outFiles /\ outDirExists' = outDirExists)]_vars

C20_Witness ==
    \E h1, h2 \in Msgs :
        /\ h1 < h2
        /\ EligibleMsg(h1)
        /\ EligibleMsg(h2)
        /\ KeyOf(h1) # KeyOf(h2)
        /\ ArtifactPath(h1) = ArtifactPath(h2)
        /\ "saved" \in trace[h1]
        /\ "fetchFailed" \in trace[h2]
        /\ pc[h2] = "rejected"
        /\ outFiles[ArtifactPath(h2)] = Doc(msg[h1].xml.envelopeId)
====
